---- MODULE Spec2Model ----
(* Vector clocks of the data-race detector (src/src/vector_clock.rs).      *)
(* A VClock is the sequence held by its SmallVec; vector index i is        *)
(* position i+1 of the sequence.  Two clocks are kept so that the binary   *)
(* operations (join, set_at_index, clone_from, the comparisons) have a     *)
(* `self` and an `other`, which Rust's borrow rules keep distinct for the  *)
(* mutators.                                                               *)
EXTENDS Integers, Sequences, FiniteSets, TLC

VARIABLES clocks, last, panicked

vars == <<clocks, last, panicked>>

(* ---------------------------------------------------------------------- *)
(* Bounds                                                                  *)
(* ---------------------------------------------------------------------- *)

\* largest vector index handed to an operation (VectorIdx is a u32)
MaxIdx == 2

\* largest value of a VTimestamp; stands for u32::MAX, scaled down so that
\* overflow on increment is reached
VTimestampMax == 1

ClockIds == {"c1", "c2"}

VectorIdx == 0..MaxIdx

VTimestamp == 0..VTimestampMax

(* ---------------------------------------------------------------------- *)
(* Pure helpers: integers and SmallVec                                     *)
(* ---------------------------------------------------------------------- *)

\* Ord::max on timestamps
max(a, b) == IF a >= b THEN a ELSE b

\* <[T]>::iter().zip(): the number of pairs a zip of two slices yields
zip_len(lhs_slice, rhs_slice) ==
    IF Len(lhs_slice) <= Len(rhs_slice) THEN Len(lhs_slice) ELSE Len(rhs_slice)

\* Ord::cmp on two timestamps (or two lengths)
cmp(l, r) == IF l < r THEN "Less" ELSE IF l > r THEN "Greater" ELSE "Equal"

\* u32::wrapping_add: what an unchecked addition would yield
wrapping_add(v, n) == [is_some |-> TRUE, val |-> (v + n) % (VTimestampMax + 1)]

\* u32::checked_add: None when the sum leaves the range of VTimestamp
checked_add(v, n) ==
    IF v + n > VTimestampMax
    THEN [is_some |-> FALSE, val |-> 0]
    ELSE [is_some |-> TRUE, val |-> v + n]

(* ---------------------------------------------------------------------- *)
(* VClock                                                                  *)
(* ---------------------------------------------------------------------- *)

\* VClock::default(): the empty SmallVec
default == << >>

\* VClock::new_with_index: smallvec![0; index + 1] with vec[index] = timestamp
new_with_index(index, timestamp) ==
    LET len == index + 1
        vec == [j \in 1..len |-> 0]
    IN  [vec EXCEPT ![index + 1] = timestamp]

\* as_slice
as_slice(self) == self

\* resize without the length test: also truncates a longer vector
get_mut_with_min_len_truncating(self, min_len) ==
    [j \in 1..min_len |-> IF j <= Len(self) THEN self[j] ELSE 0]

\* get_mut_with_min_len: zero-fill up to min_len, never shrink
get_mut_with_min_len(self, min_len) ==
    IF Len(self) < min_len
    THEN [j \in 1..min_len |-> IF j <= Len(self) THEN self[j] ELSE 0]
    ELSE self

\* increment_index: the vector after the call and whether expect() panicked
increment_index(self, idx) ==
    LET mut_slice == get_mut_with_min_len(self, idx + 1)
        sum == checked_add(mut_slice[idx + 1], 1)
    IN  IF sum.is_some
        THEN [panic |-> FALSE, vec |-> [mut_slice EXCEPT ![idx + 1] = sum.val]]
        ELSE [panic |-> TRUE, vec |-> mut_slice]

\* join that zips without growing self first
join_not_growing(self, other) ==
    LET rhs_slice == as_slice(other)
        lhs_slice == self
    IN  [j \in 1..Len(lhs_slice) |->
            IF j <= zip_len(lhs_slice, rhs_slice)
            THEN max(rhs_slice[j], lhs_slice[j])
            ELSE lhs_slice[j]]

\* join that copies the right-hand element instead of taking the maximum
join_copying(self, other) ==
    LET rhs_slice == as_slice(other)
        lhs_slice == get_mut_with_min_len(self, Len(rhs_slice))
    IN  [j \in 1..Len(lhs_slice) |->
            IF j <= zip_len(lhs_slice, rhs_slice)
            THEN rhs_slice[j]
            ELSE lhs_slice[j]]

\* join: element-wise maximum over the zipped slices
join(self, other) ==
    LET rhs_slice == as_slice(other)
        lhs_slice == get_mut_with_min_len(self, Len(rhs_slice))
    IN  [j \in 1..Len(lhs_slice) |->
            IF j <= zip_len(lhs_slice, rhs_slice)
            THEN max(rhs_slice[j], lhs_slice[j])
            ELSE lhs_slice[j]]

\* set_at_index: slice[idx] panics when idx is outside other's slice, after
\* self has already been grown
set_at_index(self, other, idx) ==
    LET mut_slice == get_mut_with_min_len(self, idx + 1)
        slice == as_slice(other)
    IN  IF idx < Len(slice)
        THEN [panic |-> FALSE, vec |-> [mut_slice EXCEPT ![idx + 1] = slice[idx + 1]]]
        ELSE [panic |-> TRUE, vec |-> mut_slice]

\* set_zero_vector: SmallVec::clear
set_zero_vector(self) == << >>

\* is_zero_vector: SmallVec::is_empty
is_zero_vector(self) == Len(self) = 0

\* clone_from: clear, then extend_from_slice(source)
clone_from(self, source) ==
    LET source_slice == as_slice(source)
        cleared == SubSeq(self, 1, 0)
    IN  cleared \o source_slice

\* derived PartialEq: equality of the two slices
eq(self, other) ==
    /\ Len(self) = Len(other)
    /\ \A j \in 1..Len(self) : self[j] = other[j]

\* Index<VectorIdx>: get(index).unwrap_or(&0)
index(self, idx) == IF idx < Len(self) THEN self[idx + 1] ELSE 0

(* ---------------------------------------------------------------------- *)
(* PartialOrd for VClock                                                   *)
(* ---------------------------------------------------------------------- *)

\* the `for (l, r) in iter` loop of partial_cmp from zipped position j on;
\* "None" is the early return
RECURSIVE partial_cmp_loop(_, _, _, _)
partial_cmp_loop(lhs_slice, rhs_slice, j, order) ==
    IF j > zip_len(lhs_slice, rhs_slice)
    THEN order
    ELSE IF order = "Equal"
         THEN partial_cmp_loop(lhs_slice, rhs_slice, j + 1,
                               cmp(lhs_slice[j], rhs_slice[j]))
         ELSE IF order = "Less"
              THEN IF lhs_slice[j] > rhs_slice[j]
                   THEN "None"
                   ELSE partial_cmp_loop(lhs_slice, rhs_slice, j + 1, order)
              ELSE IF lhs_slice[j] < rhs_slice[j]
                   THEN "None"
                   ELSE partial_cmp_loop(lhs_slice, rhs_slice, j + 1, order)

\* partial_cmp whose length test forgets the running order
partial_cmp_ignoring_order(self, other) ==
    LET lhs_slice == as_slice(self)
        rhs_slice == as_slice(other)
        first == IF zip_len(lhs_slice, rhs_slice) >= 1
                 THEN cmp(lhs_slice[1], rhs_slice[1])
                 ELSE "Equal"
        order == partial_cmp_loop(lhs_slice, rhs_slice, 2, first)
        len_order == cmp(Len(lhs_slice), Len(rhs_slice))
    IN  IF order = "None"
        THEN "None"
        ELSE IF len_order = "Equal" THEN order ELSE len_order

\* partial_cmp: "Less", "Equal", "Greater" stand for Some(_), "None" for None
partial_cmp(self, other) ==
    LET lhs_slice == as_slice(self)
        rhs_slice == as_slice(other)
        first == IF zip_len(lhs_slice, rhs_slice) >= 1
                 THEN cmp(lhs_slice[1], rhs_slice[1])
                 ELSE "Equal"
        order == partial_cmp_loop(lhs_slice, rhs_slice, 2, first)
        len_order == cmp(Len(lhs_slice), Len(rhs_slice))
    IN  IF order = "None"
        THEN "None"
        ELSE IF len_order = "Equal"
             THEN order
             ELSE IF len_order = "Less"
                  THEN IF order \in {"Less", "Equal"} THEN "Less" ELSE "None"
                  ELSE IF order \in {"Greater", "Equal"} THEN "Greater" ELSE "None"

\* the loop of lt from zipped position j on, with the running `equal`
RECURSIVE lt_loop(_, _, _, _)
lt_loop(lhs_slice, rhs_slice, j, equal) ==
    IF j > zip_len(lhs_slice, rhs_slice)
    THEN ~equal
    ELSE IF lhs_slice[j] > rhs_slice[j]
         THEN FALSE
         ELSE IF lhs_slice[j] < rhs_slice[j]
              THEN lt_loop(lhs_slice, rhs_slice, j + 1, FALSE)
              ELSE lt_loop(lhs_slice, rhs_slice, j + 1, equal)

\* lt whose `equal` starts as true whatever the lengths
lt_equal_unset(self, other) ==
    LET lhs_slice == as_slice(self)
        rhs_slice == as_slice(other)
    IN  IF Len(lhs_slice) <= Len(rhs_slice)
        THEN lt_loop(lhs_slice, rhs_slice, 1, TRUE)
        ELSE FALSE

\* lt
lt(self, other) ==
    LET lhs_slice == as_slice(self)
        rhs_slice == as_slice(other)
        l_len == Len(lhs_slice)
        r_len == Len(rhs_slice)
    IN  IF l_len <= r_len
        THEN lt_loop(lhs_slice, rhs_slice, 1, l_len = r_len)
        ELSE FALSE

\* le
le(self, other) ==
    LET lhs_slice == as_slice(self)
        rhs_slice == as_slice(other)
        l_len == Len(lhs_slice)
        r_len == Len(rhs_slice)
    IN  IF l_len <= r_len
        THEN ~ \E j \in 1..zip_len(lhs_slice, rhs_slice) :
                   lhs_slice[j] > rhs_slice[j]
        ELSE FALSE

\* the loop of gt from zipped position j on, with the running `equal`
RECURSIVE gt_loop(_, _, _, _)
gt_loop(lhs_slice, rhs_slice, j, equal) ==
    IF j > zip_len(lhs_slice, rhs_slice)
    THEN ~equal
    ELSE IF lhs_slice[j] < rhs_slice[j]
         THEN FALSE
         ELSE IF lhs_slice[j] > rhs_slice[j]
              THEN gt_loop(lhs_slice, rhs_slice, j + 1, FALSE)
              ELSE gt_loop(lhs_slice, rhs_slice, j + 1, equal)

\* gt
gt(self, other) ==
    LET lhs_slice == as_slice(self)
        rhs_slice == as_slice(other)
        l_len == Len(lhs_slice)
        r_len == Len(rhs_slice)
    IN  IF l_len >= r_len
        THEN gt_loop(lhs_slice, rhs_slice, 1, l_len = r_len)
        ELSE FALSE

\* ge
ge(self, other) ==
    LET lhs_slice == as_slice(self)
        rhs_slice == as_slice(other)
        l_len == Len(lhs_slice)
        r_len == Len(rhs_slice)
    IN  IF l_len >= r_len
        THEN ~ \E j \in 1..zip_len(lhs_slice, rhs_slice) :
                   lhs_slice[j] < rhs_slice[j]
        ELSE FALSE

(* ---------------------------------------------------------------------- *)
(* The state machine: two clocks and the record of the last call           *)
(* ---------------------------------------------------------------------- *)

\* the last call: the method, its receiver and its `other` argument (the
\* receiver again when there is none), the VectorIdx and VTimestamp
\* arguments, and the Option<Ordering> / bool / VTimestamp it returned
Call(op, self, other, idx, ts, ord, flag, val) ==
    [op |-> op, self |-> self, other |-> other, idx |-> idx, ts |-> ts,
     ord |-> ord, flag |-> flag, val |-> val]

Init ==
    /\ clocks = [k \in ClockIds |-> default]
    /\ last = Call("default", "c1", "c1", 0, 0, "-", FALSE, 0)
    /\ panicked = FALSE

NewWithIndex(k, idx, ts) ==
    /\ ~panicked
    /\ clocks' = [clocks EXCEPT ![k] = new_with_index(idx, ts)]
    /\ last' = Call("new_with_index", k, k, idx, ts, "-", FALSE, 0)
    /\ UNCHANGED panicked

IncrementIndex(k, idx) ==
    /\ ~panicked
    /\ LET r == increment_index(clocks[k], idx)
       IN  /\ clocks' = [clocks EXCEPT ![k] = r.vec]
           /\ panicked' = r.panic
    /\ last' = Call("increment_index", k, k, idx, 0, "-", FALSE, 0)

Join(k, o) ==
    /\ ~panicked
    /\ k # o
    /\ clocks' = [clocks EXCEPT ![k] = join(clocks[k], clocks[o])]
    /\ last' = Call("join", k, o, 0, 0, "-", FALSE, 0)
    /\ UNCHANGED panicked

SetAtIndex(k, o, idx) ==
    /\ ~panicked
    /\ k # o
    /\ LET r == set_at_index(clocks[k], clocks[o], idx)
       IN  /\ clocks' = [clocks EXCEPT ![k] = r.vec]
           /\ panicked' = r.panic
    /\ last' = Call("set_at_index", k, o, idx, 0, "-", FALSE, 0)

SetZeroVector(k) ==
    /\ ~panicked
    /\ clocks' = [clocks EXCEPT ![k] = set_zero_vector(clocks[k])]
    /\ last' = Call("set_zero_vector", k, k, 0, 0, "-", FALSE, 0)
    /\ UNCHANGED panicked

CloneFrom(k, o) ==
    /\ ~panicked
    /\ k # o
    /\ clocks' = [clocks EXCEPT ![k] = clone_from(clocks[k], clocks[o])]
    /\ last' = Call("clone_from", k, o, 0, 0, "-", FALSE, 0)
    /\ UNCHANGED panicked

IsZeroVector(k) ==
    /\ ~panicked
    /\ last' = Call("is_zero_vector", k, k, 0, 0, "-", is_zero_vector(clocks[k]), 0)
    /\ UNCHANGED <<clocks, panicked>>

Index(k, idx) ==
    /\ ~panicked
    /\ last' = Call("index", k, k, idx, 0, "-", FALSE, index(clocks[k], idx))
    /\ UNCHANGED <<clocks, panicked>>

Eq(k, o) ==
    /\ ~panicked
    /\ k # o
    /\ last' = Call("eq", k, o, 0, 0, "-", eq(clocks[k], clocks[o]), 0)
    /\ UNCHANGED <<clocks, panicked>>

PartialCmp(k, o) ==
    /\ ~panicked
    /\ k # o
    /\ last' = Call("partial_cmp", k, o, 0, 0, partial_cmp(clocks[k], clocks[o]), FALSE, 0)
    /\ UNCHANGED <<clocks, panicked>>

Lt(k, o) ==
    /\ ~panicked
    /\ k # o
    /\ last' = Call("lt", k, o, 0, 0, "-", lt(clocks[k], clocks[o]), 0)
    /\ UNCHANGED <<clocks, panicked>>

Le(k, o) ==
    /\ ~panicked
    /\ k # o
    /\ last' = Call("le", k, o, 0, 0, "-", le(clocks[k], clocks[o]), 0)
    /\ UNCHANGED <<clocks, panicked>>

Gt(k, o) ==
    /\ ~panicked
    /\ k # o
    /\ last' = Call("gt", k, o, 0, 0, "-", gt(clocks[k], clocks[o]), 0)
    /\ UNCHANGED <<clocks, panicked>>

Ge(k, o) ==
    /\ ~panicked
    /\ k # o
    /\ last' = Call("ge", k, o, 0, 0, "-", ge(clocks[k], clocks[o]), 0)
    /\ UNCHANGED <<clocks, panicked>>

Next ==
    \/ \E k \in ClockIds, idx \in VectorIdx, ts \in VTimestamp : NewWithIndex(k, idx, ts)
    \/ \E k \in ClockIds, idx \in VectorIdx : IncrementIndex(k, idx)
    \/ \E k \in ClockIds, o \in ClockIds : Join(k, o)
    \/ \E k \in ClockIds, o \in ClockIds, idx \in VectorIdx : SetAtIndex(k, o, idx)
    \/ \E k \in ClockIds : SetZeroVector(k)
    \/ \E k \in ClockIds, o \in ClockIds : CloneFrom(k, o)
    \/ \E k \in ClockIds : IsZeroVector(k)
    \/ \E k \in ClockIds, idx \in VectorIdx : Index(k, idx)
    \/ \E k \in ClockIds, o \in ClockIds : Eq(k, o)
    \/ \E k \in ClockIds, o \in ClockIds : PartialCmp(k, o)
    \/ \E k \in ClockIds, o \in ClockIds : Lt(k, o)
    \/ \E k \in ClockIds, o \in ClockIds : Le(k, o)
    \/ \E k \in ClockIds, o \in ClockIds : Gt(k, o)
    \/ \E k \in ClockIds, o \in ClockIds : Ge(k, o)

Spec == Init /\ [][Next]_vars

TypeOK ==
    /\ \A k \in ClockIds :
          /\ Len(clocks[k]) <= MaxIdx + 1
          /\ \A j \in 1..Len(clocks[k]) : clocks[k][j] \in VTimestamp
    /\ panicked \in BOOLEAN

(* ---------------------------------------------------------------------- *)
(* Vocabulary of the properties                                            *)
(* ---------------------------------------------------------------------- *)

\* the timestamp a clock denotes at vector index i: the stored value, or 0
\* beyond the stored sequence
Slot(c, i) == IF i + 1 <= Len(c) THEN c[i + 1] ELSE 0

\* every vector index a stored sequence of the model can cover, and one more
Slots == 0..(MaxIdx + 1)

\* the documented invariant of VClock: the last stored element is not 0
Canonical(c) == Len(c) = 0 \/ c[Len(c)] # 0

\* every stored sequence within the bounds
AllClocks == UNION {[1..n -> VTimestamp] : n \in 0..(MaxIdx + 1)}

(* ---------------------------------------------------------------------- *)
(* Properties                                                              *)
(* ---------------------------------------------------------------------- *)

\* C1: the stored sequence of every clock is empty or ends in a non-zero
\* element, in every state reached from default / new_with_index by the
\* mutators.
C1_Canonicalization ==
    \A k \in ClockIds : Canonical(clocks[k])

\* C2: on clocks L, R without a trailing zero, partial_cmp(L, R) is the
\* pointwise order of the zero-padded slots: Equal iff all slots agree, Less
\* iff all L[i] <= R[i] and some slot differs, Greater iff all L[i] >= R[i]
\* and some slot differs, None iff some L[i] > R[i] and some L[j] < R[j].
\* Stated of the result r that a partial_cmp call on L and R has returned;
\* every pair of clocks the program can hold is compared in some state.
C2_PartialCmpIsProductOrder ==
    last.op = "partial_cmp" =>
        LET L == clocks[last.self]
            R == clocks[last.other]
            r == last.ord
        IN  Canonical(L) /\ Canonical(R) =>
              /\ r = "Equal" <=> \A i \in Slots : Slot(L, i) = Slot(R, i)
              /\ r = "Less" <=>
                    /\ \A i \in Slots : Slot(L, i) <= Slot(R, i)
                    /\ \E i \in Slots : Slot(L, i) # Slot(R, i)
              /\ r = "Greater" <=>
                    /\ \A i \in Slots : Slot(L, i) >= Slot(R, i)
                    /\ \E i \in Slots : Slot(L, i) # Slot(R, i)
              /\ r = "None" <=>
                    /\ \E i \in Slots : Slot(L, i) > Slot(R, i)
                    /\ \E j \in Slots : Slot(L, j) < Slot(R, j)

\* C2 witness: partial_cmp has answered None for two canonical clocks of
\* different lengths (the running order favoured the longer one's opponent).
C2_Witness ==
    /\ last.op = "partial_cmp"
    /\ last.ord = "None"
    /\ Canonical(clocks[last.self]) /\ Canonical(clocks[last.other])
    /\ Len(clocks[last.self]) < Len(clocks[last.other])
    /\ Len(clocks[last.self]) >= 2

\* C3: lt, le, gt, ge agree with partial_cmp on every pair of clocks: lt iff
\* Some(Less), le iff Some(Less) or Some(Equal), gt iff Some(Greater), ge iff
\* Some(Greater) or Some(Equal).  Stated of the bool that a call of one of
\* the four on L and R has returned, canonical or not.
C3_OperatorsAgreeWithPartialCmp ==
    last.op \in {"lt", "le", "gt", "ge"} =>
        LET r == partial_cmp(clocks[last.self], clocks[last.other])
        IN  /\ last.op = "lt" => (last.flag <=> r = "Less")
            /\ last.op = "le" => (last.flag <=> r \in {"Less", "Equal"})
            /\ last.op = "gt" => (last.flag <=> r = "Greater")
            /\ last.op = "ge" => (last.flag <=> r \in {"Greater", "Equal"})

\* C3 witness: lt has answered true for a shorter clock whose stored slots
\* all equal the other's, so that only the length decides.
C3_Witness ==
    /\ last.op = "lt"
    /\ last.flag
    /\ Len(clocks[last.self]) >= 1
    /\ Len(clocks[last.self]) < Len(clocks[last.other])
    /\ \A j \in 1..Len(clocks[last.self]) :
          clocks[last.self][j] = clocks[last.other][j]

\* C4: == on two clocks holds exactly when they denote the same function
\* from vector index to timestamp (slot-wise equality under zero extension).
C4_EqualityIsSlotwise ==
    \A k \in ClockIds, o \in ClockIds :
        eq(clocks[k], clocks[o]) <=>
            \A i \in Slots : Slot(clocks[k], i) = Slot(clocks[o], i)

\* C5: join is idempotent, commutative and associative up to ==, and both
\* arguments are <= the join.  A and B are the two clocks of the state and
\* the third clock of associativity ranges over every stored sequence; the
\* laws are evaluated in the states whose last call is the == of A and B,
\* which every pair of clocks the program can hold reaches.
C5_JoinSemilattice ==
    last.op = "eq" =>
        LET A == clocks[last.self]
            B == clocks[last.other]
        IN  /\ eq(join(A, A), A)
            /\ eq(join(A, B), join(B, A))
            /\ le(A, join(A, B))
            /\ le(B, join(A, B))
            /\ \A C \in AllClocks :
                  eq(join(join(A, B), C), join(A, join(B, C)))

\* C5 witness: a join has acted and left self strictly above a non-trivial
\* other, and longer than it.
C5_Witness ==
    /\ last.op = "join"
    /\ Len(clocks[last.other]) >= 2
    /\ Len(clocks[last.self]) > Len(clocks[last.other])
    /\ lt(clocks[last.other], clocks[last.self])

\* C6: increment_index(i) on a clock whose slot i is below the maximum
\* timestamp leaves a clock strictly greater than before (old < new and
\* partial_cmp(old, new) = Some(Less)), with slot i one more than before and
\* every other slot as before.
C6_IncrementMonotone ==
    [][ (last'.op = "increment_index"
           /\ Slot(clocks[last'.self], last'.idx) < VTimestampMax)
        => LET old == clocks[last'.self]
               new == clocks'[last'.self]
               i == last'.idx
           IN  /\ ~panicked'
               /\ lt(old, new)
               /\ partial_cmp(old, new) = "Less"
               /\ Slot(new, i) = Slot(old, i) + 1
               /\ \A j \in Slots : j # i => Slot(new, j) = Slot(old, j)
      ]_vars

\* C6 witness: an increment has acted on an inner slot of a canonical clock
\* with later slots, next to a slot that stayed 0.
C6_Witness ==
    /\ last.op = "increment_index"
    /\ ~panicked
    /\ last.idx >= 1
    /\ Len(clocks[last.self]) > last.idx + 1
    /\ Canonical(clocks[last.self])
    /\ Slot(clocks[last.self], last.idx - 1) = 0

\* C7: only increment_index can fail: no other call leaves the failure
\* state, and an index read beyond the stored length returns 0.
C7_OnlyIncrementFails ==
    /\ panicked => last.op = "increment_index"
    /\ (last.op = "index" /\ last.idx >= Len(clocks[last.self])) => last.val = 0

\* C8: increment_index on a slot that holds the maximum timestamp ends in
\* the failure state, and no increment lowers a slot (no wrap to 0).
C8_OverflowIsFatal ==
    [][ last'.op = "increment_index"
        => LET old == clocks[last'.self]
               new == clocks'[last'.self]
               i == last'.idx
           IN  /\ Slot(old, i) = VTimestampMax => panicked'
               /\ \A j \in Slots : Slot(new, j) >= Slot(old, j)
      ]_vars

\* C8 witness: an increment has hit the maximum timestamp and failed.
C8_Witness ==
    /\ last.op = "increment_index"
    /\ panicked
    /\ Slot(clocks[last.self], last.idx) = VTimestampMax

\* C9: after self.set_at_index(other, i), slot i of self equals slot i of
\* other (0 beyond other's stored sequence), every other slot of self is as
\* before, and other is unchanged.
C9_SetAtIndexCopiesOneSlot ==
    [][ last'.op = "set_at_index"
        => LET old == clocks[last'.self]
               new == clocks'[last'.self]
               other == clocks[last'.other]
               i == last'.idx
           IN  /\ ~panicked'
               /\ Slot(new, i) = Slot(other, i)
               /\ \A j \in Slots : j # i => Slot(new, j) = Slot(old, j)
               /\ clocks'[last'.other] = other
      ]_vars

\* C10: after self.join(other) every slot of self is the maximum of its old
\* value and other's slot, the stored length of self is the larger of the
\* two lengths, and other is unchanged.
C10_JoinIsPointwiseMax ==
    [][ last'.op = "join"
        => LET old == clocks[last'.self]
               new == clocks'[last'.self]
               other == clocks[last'.other]
           IN  /\ ~panicked'
               /\ \A i \in Slots :
                     /\ Slot(new, i) =
                           IF Slot(old, i) >= Slot(other, i)
                           THEN Slot(old, i) ELSE Slot(other, i)
                     /\ Slot(new, i) >= Slot(old, i)
               /\ Len(new) = IF Len(old) >= Len(other) THEN Len(old) ELSE Len(other)
               /\ clocks'[last'.other] = other
      ]_vars

\* C10 witness: a join has acted and left self equal to neither a copy of
\* other nor shorter than it: some slot kept self's larger value and some
\* slot holds other's value.
C10_Witness ==
    /\ last.op = "join"
    /\ Len(clocks[last.other]) >= 2
    /\ \E j \in 1..Len(clocks[last.other]) :
          clocks[last.self][j] > clocks[last.other][j]
    /\ \E j \in 1..Len(clocks[last.other]) :
          /\ clocks[last.self][j] = clocks[last.other][j]
          /\ clocks[last.other][j] > 0

====
